---------------------------- MODULE Spec2Model ----------------------------
(***************************************************************************)
(* Model of the telemetry server of Source.cpp: the accept loop of main    *)
(* and the per-connection thread function handleClient, with the console   *)
(* (cout) guarded by coutMutex as the only shared object.                  *)
(*                                                                         *)
(* A byte is its character code.  A byte string is a sequence of bytes.    *)
(* A double is modelled by the exact rational it denotes, kept as a        *)
(* normalised pair <<numerator, denominator>>.                             *)
(* Parse.h (trim, parseTelemetryData, TelemetryDataPoint) is not part of   *)
(* the sources; it is modelled from the wire contract of the               *)
(* specification with the grammar  <seconds> "," <fuel>  (decimal), the    *)
(* seconds counted from midnight of 1 January 1970, local time.            *)
(* A thread takes a step of its own wherever another thread can see the    *)
(* difference: taking coutMutex, releasing it, and closing the socket.     *)
(***************************************************************************)
EXTENDS Integers, Sequences, FiniteSets, TLC

(***************************************************************************)
(* Bounds of the model.                                                    *)
(***************************************************************************)
MaxRecords == 3      \* records after the identifier line in a line stream
MaxLen == 5          \* length of an arbitrary byte stream

(***************************************************************************)
(* Program constants and character codes.                                  *)
(***************************************************************************)
BUFFER_SIZE == 128
NUL == 0
NL == 10
SP == 32
COMMA == 44

Sessions == {1, 2}

Digits == 48..57
Whitespace == {9, 11, 12, 13, SP}

(***************************************************************************)
(* Byte-string helpers (std::string::find, substr, erase, operator+=).     *)
(***************************************************************************)
Min(a, b) == IF a < b THEN a ELSE b

\* std::string::find(c): the first position holding c, 0 for npos.
Find(str, c) ==
  IF \E i \in 1..Len(str) : str[i] = c
  THEN CHOOSE i \in 1..Len(str) : str[i] = c /\ \A j \in 1..(i-1) : str[j] # c
  ELSE 0

HasNL(str) == Find(str, NL) # 0

\* substr(0, pos) where pos is the 0-based index of the byte at position p.
Before(str, p) == SubSeq(str, 1, p - 1)

\* erase(0, pos + 1): what follows the byte at position p.
After(str, p) == SubSeq(str, p + 1, Len(str))

\* buffer[bytesReceived] = '\0'; recvBuffer += buffer;
\* operator+=(const char*) appends a C string: the bytes before the first
\* zero byte of the chunk.
CStr(chunk) ==
  IF Find(chunk, NUL) = 0 THEN chunk ELSE Before(chunk, Find(chunk, NUL))

(***************************************************************************)
(* Parse.h, modelled from the specification.                               *)
(***************************************************************************)
RECURSIVE TrimLeft(_)
TrimLeft(str) ==
  IF str # <<>> /\ Head(str) \in Whitespace THEN TrimLeft(Tail(str)) ELSE str

RECURSIVE TrimRight(_)
TrimRight(str) ==
  IF str # <<>> /\ str[Len(str)] \in Whitespace
  THEN TrimRight(SubSeq(str, 1, Len(str) - 1))
  ELSE str

trim(str) == TrimRight(TrimLeft(str))

IsNumber(str) == str # <<>> /\ \A i \in 1..Len(str) : str[i] \in Digits

RECURSIVE DecVal(_)
DecVal(str) ==
  IF str = <<>> THEN 0
  ELSE 10 * DecVal(SubSeq(str, 1, Len(str) - 1)) + (str[Len(str)] - 48)

\* The two fields of a record, split at its first comma.
TimeField(str) == Before(str, Find(str, COMMA))
FuelField(str) == After(str, Find(str, COMMA))

\* parseTelemetryData's result: TRUE iff the record has exactly two fields
\* and both decode.
parseOk(line) ==
  LET t == trim(line) IN
    /\ Find(t, COMMA) # 0
    /\ IsNumber(TimeField(t))
    /\ IsNumber(FuelField(t))

\* The TelemetryDataPoint of a well-formed record: a broken-down time
\* (struct tm) and the fuel remaining.  The time field counts seconds from
\* midnight of 1 January 1970; the parser stores them as minutes and seconds
\* of that day, sets tm_isdst to 0 (standard time) and leaves tm_wday and
\* tm_yday at 0.
parseTelemetryData(line) ==
  LET t == trim(line)
      secs == DecVal(TimeField(t))
  IN [timestamp |->
        [tm_sec |-> secs % 60, tm_min |-> secs \div 60, tm_hour |-> 0,
         tm_mday |-> 1, tm_mon |-> 0, tm_year |-> 70, tm_wday |-> 0,
         tm_yday |-> 0, tm_isdst |-> 0],
      fuelRemaining |-> DecVal(FuelField(t))]

(***************************************************************************)
(* C library and arithmetic of handleClient.                               *)
(***************************************************************************)
\* The proleptic Gregorian calendar, days counted from 1 January 1970.
IsLeap(y) == (y % 4 = 0 /\ y % 100 # 0) \/ y % 400 = 0

LeapsBefore(y) == (y - 1) \div 4 - (y - 1) \div 100 + (y - 1) \div 400

DaysBeforeYear(y) == 365 * (y - 1970) + LeapsBefore(y) - LeapsBefore(1970)

\* Days of year y before its month m (0 = January; 12 = the whole year).
DaysBeforeMonth(m, y) ==
  <<0, 31, 59, 90, 120, 151, 181, 212, 243, 273, 304, 334, 365>>[m + 1]
    + (IF m >= 2 /\ IsLeap(y) THEN 1 ELSE 0)

\* The seconds from 1 January 1970 00:00:00 to the calendar time a struct tm
\* denotes, on the same clock; fields out of their range carry over.  The
\* fields tm_wday and tm_yday are not read.
LocalSeconds(tm) ==
  LET y == 1900 + tm.tm_year + tm.tm_mon \div 12
      m == tm.tm_mon % 12
  IN (DaysBeforeYear(y) + DaysBeforeMonth(m, y) + tm.tm_mday - 1) * 86400
       + tm.tm_hour * 3600 + tm.tm_min * 60 + tm.tm_sec

\* The struct tm, every field in its range, of the calendar time that lies
\* secs seconds after 1 January 1970 00:00:00 (a Thursday).
BrokenDown(secs) ==
  LET n == secs \div 86400
      r == secs % 86400
      lo == 1969 + (IF n < 0 THEN n \div 365 ELSE n \div 366)
      hi == 1971 + (IF n < 0 THEN n \div 366 ELSE n \div 365)
      y == CHOOSE yy \in lo..hi :
             DaysBeforeYear(yy) <= n /\ n < DaysBeforeYear(yy + 1)
      yd == n - DaysBeforeYear(y)
      m == CHOOSE mm \in 0..11 :
             DaysBeforeMonth(mm, y) <= yd /\ yd < DaysBeforeMonth(mm + 1, y)
  IN [tm_sec |-> r % 60, tm_min |-> (r \div 60) % 60, tm_hour |-> r \div 3600,
      tm_mday |-> yd - DaysBeforeMonth(m, y) + 1, tm_mon |-> m,
      tm_year |-> y - 1900, tm_wday |-> (4 + n) % 7, tm_yday |-> yd,
      tm_isdst |-> 0]

\* What a positive tm_isdst on entry takes off: the caller says the fields
\* are daylight saving time, one hour ahead of the zone's standard time.
\* Zero, or a negative tm_isdst (the library is to find out), takes nothing
\* off in a zone without daylight saving.
DstBias(tm) == IF tm.tm_isdst > 0 THEN 3600 ELSE 0

\* The time_t of a struct tm read as local time in a zone that lies tz
\* seconds west of UTC all year (the C library's `timezone`) and has no
\* daylight saving.
TimeOf(tm, tz) == LocalSeconds(tm) - DstBias(tm) + tz

\* mktime(&tm): the outcomes of the call, each the value returned and the
\* struct tm left behind.  The call returns the time_t and rewrites the
\* struct in place as the zone's standard time of that time_t, every field
\* in its range and tm_isdst 0.  A time before 1 January 1970 00:00:00 UTC is
\* returned as a negative time_t by some C libraries and refused by others
\* (Microsoft's, for which Source.cpp is written): a refusal returns -1 and
\* leaves the struct as it was.
mktime(tm, tz) ==
  {[ret |-> TimeOf(tm, tz), tm |-> BrokenDown(TimeOf(tm, tz) - tz)]}
    \cup (IF TimeOf(tm, tz) < 0 THEN {[ret |-> -1, tm |-> tm]} ELSE {})

\* difftime(a, b): a - b in seconds.
difftime(a, b) == a - b

Abs(n) == IF n < 0 THEN -n ELSE n

RECURSIVE GCD(_, _)
GCD(a, b) == IF b = 0 THEN a ELSE GCD(b, a % b)

\* The value of num / den (den > 0) as a normalised rational.
Quot(num, den) ==
  LET g == GCD(Abs(num), den) IN <<num \div g, den \div g>>

Zero == <<0, 1>>

\* double consumptionRate = (timeDiff > 0) ? (fuelConsumed / timeDiff) : 0.0;
ConsumptionRateUnguarded(fuelConsumed, timeDiff) ==
  IF timeDiff # 0 THEN Quot(fuelConsumed * (IF timeDiff < 0 THEN -1 ELSE 1), Abs(timeDiff))
  ELSE Zero
ConsumptionRate(fuelConsumed, timeDiff) ==
  IF timeDiff > 0 THEN Quot(fuelConsumed, timeDiff) ELSE Zero

\* struct FlightData and its constructor.
FlightData ==
  [startTime |-> 0, startFuel |-> 0, lastTime |-> 0, lastFuel |-> 0,
   firstData |-> TRUE]

\* Lines 127-129: the average of a flight.
AverageFromLast(f) ==
  ConsumptionRate(f.lastFuel - f.startFuel, difftime(f.lastTime, f.startTime))
AverageConsumption(f) ==
  ConsumptionRate(f.startFuel - f.lastFuel, difftime(f.lastTime, f.startTime))

(***************************************************************************)
(* State.                                                                  *)
(*   stream, cursor   the bytes the peer of connection s sends, and how    *)
(*                    many of them recv has delivered so far               *)
(*   pc               where the thread of connection s stands              *)
(*   closes           how many times closesocket(clientSocket) was called  *)
(*   bytesReceived, recvBuffer, uniqueID, flight                           *)
(*                    the locals of handleClient of the same names         *)
(*                    (bytesReceived is not read before recv assigns it)   *)
(*   locals           line, dataPoint, currentTime, currentFuel,           *)
(*                    consumptionRate and averageConsumption while a line  *)
(*                    is being written                                     *)
(*   coutMutex        0 when free, else the session holding it             *)
(*   sink             what has been streamed to cout, in order: the text   *)
(*                    of a line and its endl are separate writes           *)
(*   timezone         the process's time zone, in seconds west of UTC      *)
(*   records          history: the records the framing loop has split off  *)
(*   accepted         history: the readings the tracker has taken in       *)
(***************************************************************************)
VARIABLES stream, cursor, pc, closes, bytesReceived, recvBuffer, uniqueID,
          flight, locals, coutMutex, sink, timezone, records, accepted

vars == <<stream, cursor, pc, closes, bytesReceived, recvBuffer, uniqueID,
          flight, locals, coutMutex, sink, timezone, records, accepted>>

NoTm ==
  [tm_sec |-> 0, tm_min |-> 0, tm_hour |-> 0, tm_mday |-> 0, tm_mon |-> 0,
   tm_year |-> 0, tm_wday |-> 0, tm_yday |-> 0, tm_isdst |-> 0]
NoDataPoint == [timestamp |-> NoTm, fuelRemaining |-> 0]
NoLocals ==
  [line |-> <<>>, dataPoint |-> NoDataPoint, currentTime |-> 0,
   currentFuel |-> 0, consumptionRate |-> Zero, averageConsumption |-> Zero]

\* The lines of the console.
ConnectedLine(id) ==
  [kind |-> "connected", id |-> id, tm |-> NoTm, fuel |-> 0, rate |-> Zero,
   text |-> <<>>]
ConsumptionLine(id, tm, fuel, rate) ==
  [kind |-> "consumption", id |-> id, tm |-> tm, fuel |-> fuel, rate |-> rate,
   text |-> <<>>]
ParseFailureLine(line) ==
  [kind |-> "parsefail", id |-> <<>>, tm |-> NoTm, fuel |-> 0, rate |-> Zero,
   text |-> line]
SummaryLine(id, rate) ==
  [kind |-> "summary", id |-> id, tm |-> NoTm, fuel |-> 0, rate |-> rate,
   text |-> <<>>]
Endl == [kind |-> "endl", id |-> <<>>, tm |-> NoTm, fuel |-> 0, rate |-> Zero,
         text |-> <<>>]

\* One write to cout by session s, with the holder of coutMutex at that time.
Write(s, holder, line) == [sid |-> s, holder |-> holder, line |-> line]

(***************************************************************************)
(* The streams a peer may send.                                            *)
(***************************************************************************)
SeqsUpTo(S, n) == UNION {[1..k -> S] : k \in 0..n}

RECURSIVE Flatten(_)
Flatten(ss) == IF ss = <<>> THEN <<>> ELSE Head(ss) \o Flatten(Tail(ss))

\* Arbitrary bytes: zero byte, newline, comma and the digit 1.
ByteAlphabet == {NUL, NL, COMMA, 49}
ByteStreams == SeqsUpTo(ByteAlphabet, MaxLen)

\* The well-formed readings "0,3", "1,1", "1,3" and "2,3", a malformed
\* record "x" and a blank record " ".
ReadingRecords ==
  {<<48, COMMA, 51>>, <<49, COMMA, 49>>, <<49, COMMA, 51>>, <<50, COMMA, 51>>}
RecordSet == ReadingRecords \cup {<<120>>, <<SP>>}
IdLine == <<65, NL>>
LineStreams ==
  {IdLine \o Flatten([i \in 1..Len(rs) |-> rs[i] \o <<NL>>]) :
     rs \in SeqsUpTo(RecordSet, MaxRecords)}

\* "N12AB\n0,100\n10,95\n20,88\n"
Scenario ==
  <<78, 49, 50, 65, 66, NL>> \o <<48, COMMA, 49, 48, 48, NL>>
    \o <<49, 48, COMMA, 57, 53, NL>> \o <<50, 48, COMMA, 56, 56, NL>>

\* "A\n3599,5\n3600,3\n": the second reading falls into the next hour.
NextHour ==
  <<65, NL, 51, 53, 57, 57, COMMA, 53, NL, 51, 54, 48, 48, COMMA, 51, NL>>

\* The time zones of the process: UTC and US Eastern standard time, five
\* hours west.
UTC == 0
EST == 18000
TimeZones == {UTC, EST}

\* Two short sessions for the concurrent runs: "A\n0,3\n1,1\n" and "B\nx\n".
ConcStreams ==
  {<<65, NL, 48, COMMA, 51, NL, 49, COMMA, 49, NL>>, <<66, NL, 120, NL>>}

(***************************************************************************)
(* Initial states: the connections in `active` are waiting in the listen   *)
(* queue, each with the stream its peer is going to send.                  *)
(***************************************************************************)
InitWith(active, streams, zones) ==
  /\ stream \in [Sessions -> streams \cup {<<>>}]
  /\ \A s \in Sessions \ active : stream[s] = <<>>
  /\ cursor = [s \in Sessions |-> 0]
  /\ pc = [s \in Sessions |-> IF s \in active THEN "pending" ELSE "absent"]
  /\ closes = [s \in Sessions |-> 0]
  /\ bytesReceived = [s \in Sessions |-> 0]
  /\ recvBuffer = [s \in Sessions |-> <<>>]
  /\ uniqueID = [s \in Sessions |-> <<>>]
  /\ flight = [s \in Sessions |-> FlightData]
  /\ locals = [s \in Sessions |-> NoLocals]
  /\ coutMutex = 0
  /\ sink = <<>>
  /\ timezone \in zones
  /\ records = [s \in Sessions |-> <<>>]
  /\ accepted = [s \in Sessions |-> <<>>]

\* One connection: arbitrary bytes in UTC, lines of records five hours west
\* of it, or one of the two longer sessions in either zone.
Init ==
  \/ InitWith({1}, ByteStreams, {UTC})
  \/ InitWith({1}, LineStreams, {EST})
  \/ InitWith({1}, {Scenario, NextHour}, TimeZones)

InitConc == InitWith(Sessions, ConcStreams, {EST})

\* Two sessions whose records cause lines of both kinds, in both orders:
\* "A\nx\n0,3\n1,1\n" and "B\n0,3\n1,1\nx\n".
OrderStreams ==
  {<<65, NL, 120, NL, 48, COMMA, 51, NL, 49, COMMA, 49, NL>>,
   <<66, NL, 48, COMMA, 51, NL, 49, COMMA, 49, NL, 120, NL>>}

InitOrder == InitWith(Sessions, OrderStreams, {EST})

(***************************************************************************)
(* The transport.  recv(clientSocket, buffer, BUFFER_SIZE - 1, 0) returns  *)
(* the length of the chunk it delivers (any positive number of the bytes   *)
(* still to come, at most BUFFER_SIZE - 1), 0 once the peer has sent       *)
(* everything and closed, or -1 on a transport error at any time.          *)
(***************************************************************************)
RecvResults(s) ==
  (1..Min(BUFFER_SIZE - 1, Len(stream[s]) - cursor[s]))
    \cup (IF cursor[s] = Len(stream[s]) THEN {0} ELSE {})
    \cup {-1}

\* bytesReceived is only ever compared with 0 once the chunk is appended:
\* the model keeps its sign.
Sign(n) == IF n > 0 THEN 1 ELSE IF n < 0 THEN -1 ELSE 0

Chunk(s, n) == SubSeq(stream[s], cursor[s] + 1, cursor[s] + n)

(***************************************************************************)
(* lock_guard<mutex> lock(coutMutex): blocks until the mutex is free and   *)
(* takes it.  Its destructor, at the end of the block, frees the mutex.    *)
(***************************************************************************)
lock_guard_absent(s) == UNCHANGED coutMutex
lock_guard(s) == coutMutex = 0 /\ coutMutex' = s

unlock_absent == UNCHANGED coutMutex
unlock == coutMutex' = 0

\* Where the thread goes on after a record: the framing loop's condition.
ContSummarises(buf) == IF HasNL(buf) THEN "lines" ELSE "sumLock"
Cont(buf) == IF HasNL(buf) THEN "lines" ELSE "recv"

(***************************************************************************)
(* The tracker's assignments.                                              *)
(***************************************************************************)
\* Lines 103-105.
StoreStartKeepsFirst(f, currentTime, currentFuel) ==
  [f EXCEPT !.startTime = currentTime, !.startFuel = currentFuel]
StoreStart(f, currentTime, currentFuel) ==
  [f EXCEPT !.startTime = currentTime, !.startFuel = currentFuel,
            !.firstData = FALSE]

\* Lines 121-122.
UpdateLastAndStart(f, currentTime, currentFuel) ==
  [f EXCEPT !.lastTime = currentTime, !.lastFuel = currentFuel,
            !.startTime = currentTime]
UpdateLast(f, currentTime, currentFuel) ==
  [f EXCEPT !.lastTime = currentTime, !.lastFuel = currentFuel]

\* Line 109.
FuelConsumedSinceStart(f, currentFuel) == f.startFuel - currentFuel
FuelConsumed(f, currentFuel) == f.lastFuel - currentFuel

\* Line 110.
TimeDiff(f, currentTime) == difftime(currentTime, f.lastTime)

Reading(currentTime, currentFuel) == [time |-> currentTime, fuel |-> currentFuel]

(***************************************************************************)
(* main: accept a connection and start its thread.                         *)
(***************************************************************************)
Accept(s) ==
  /\ pc[s] = "pending"
  /\ pc' = [pc EXCEPT ![s] = "awaitId"]
  /\ UNCHANGED <<timezone, stream, cursor, closes, bytesReceived, recvBuffer, uniqueID,
                 flight, locals, coutMutex, sink, records, accepted>>

(***************************************************************************)
(* handleClient, lines 54-67: one iteration of the identifier loop, and    *)
(* the extraction of the identifier once the buffer holds a newline.       *)
(***************************************************************************)
\* closesocket(clientSocket).
closesocket_missing(s) == UNCHANGED closes
closesocket(s) == closes' = [closes EXCEPT ![s] = @ + 1]

\* Line 56: the read of the identifier loop returned nothing; the thread
\* goes on to closesocket and return (lines 57-58).
IdReadFailedSummarises(s) == pc' = [pc EXCEPT ![s] = "sumLock"]
IdReadFailed(s) == pc' = [pc EXCEPT ![s] = "idClose"]

RecvId(s) ==
  /\ pc[s] = "awaitId"
  /\ \E n \in RecvResults(s) :
       /\ bytesReceived' = [bytesReceived EXCEPT ![s] = Sign(n)]
       /\ IF n <= 0
          THEN /\ IdReadFailed(s)
               /\ UNCHANGED <<cursor, recvBuffer, uniqueID>>
          ELSE LET buf == recvBuffer[s] \o CStr(Chunk(s, n))
                   pos == Find(buf, NL)
               IN /\ cursor' = [cursor EXCEPT ![s] = @ + n]
                  /\ IF pos = 0
                     THEN /\ recvBuffer' = [recvBuffer EXCEPT ![s] = buf]
                          /\ UNCHANGED <<uniqueID, pc>>
                     ELSE /\ uniqueID' = [uniqueID EXCEPT ![s] = Before(buf, pos)]
                          /\ recvBuffer' = [recvBuffer EXCEPT ![s] = After(buf, pos)]
                          /\ pc' = [pc EXCEPT ![s] = "connLock"]
  /\ UNCHANGED <<timezone, stream, closes, flight, locals, coutMutex, sink, records,
                 accepted>>

(***************************************************************************)
(* Lines 69-72: the "Connected client" line.                               *)
(***************************************************************************)
BeginConnected(s) ==
  /\ pc[s] = "connLock"
  /\ lock_guard(s)
  /\ sink' = Append(sink, Write(s, coutMutex', ConnectedLine(uniqueID[s])))
  /\ pc' = [pc EXCEPT ![s] = "connWrite"]
  /\ UNCHANGED <<timezone, stream, cursor, closes, bytesReceived, recvBuffer, uniqueID,
                 flight, locals, records, accepted>>

EndConnected(s) ==
  /\ pc[s] = "connWrite"
  /\ sink' = Append(sink, Write(s, coutMutex, Endl))
  /\ unlock
  /\ pc' = [pc EXCEPT ![s] = "recv"]
  /\ UNCHANGED <<timezone, stream, cursor, closes, bytesReceived, recvBuffer, uniqueID,
                 flight, locals, records, accepted>>

(***************************************************************************)
(* Line 75-77: one read of the telemetry loop.  A read that returns        *)
(* nothing leaves the loop, and lines 127-129 compute the average.         *)
(***************************************************************************)
RecvDataFlushes(s) ==
  /\ pc[s] = "recv"
  /\ \E n \in RecvResults(s) :
       /\ bytesReceived' = [bytesReceived EXCEPT ![s] = Sign(n)]
       /\ IF n <= 0
          THEN IF recvBuffer[s] # <<>>
               THEN /\ recvBuffer' = [recvBuffer EXCEPT ![s] = @ \o <<NL>>]
                    /\ pc' = [pc EXCEPT ![s] = "lines"]
                    /\ UNCHANGED <<cursor, locals>>
               ELSE /\ locals' = [locals EXCEPT ![s].averageConsumption =
                                                  AverageConsumption(flight[s])]
                    /\ pc' = [pc EXCEPT ![s] = "sumLock"]
                    /\ UNCHANGED <<cursor, recvBuffer>>
          ELSE LET buf == recvBuffer[s] \o CStr(Chunk(s, n))
               IN /\ cursor' = [cursor EXCEPT ![s] = @ + n]
                  /\ recvBuffer' = [recvBuffer EXCEPT ![s] = buf]
                  /\ pc' = [pc EXCEPT ![s] = Cont(buf)]
                  /\ UNCHANGED locals
  /\ UNCHANGED <<timezone, stream, closes, uniqueID, flight, coutMutex, sink, records,
                 accepted>>
RecvData(s) ==
  /\ pc[s] = "recv"
  /\ \E n \in RecvResults(s) :
       /\ bytesReceived' = [bytesReceived EXCEPT ![s] = Sign(n)]
       /\ IF n <= 0
          THEN /\ locals' = [locals EXCEPT ![s].averageConsumption =
                                             AverageConsumption(flight[s])]
               /\ pc' = [pc EXCEPT ![s] = "sumLock"]
               /\ UNCHANGED <<cursor, recvBuffer>>
          ELSE LET buf == recvBuffer[s] \o CStr(Chunk(s, n))
               IN /\ cursor' = [cursor EXCEPT ![s] = @ + n]
                  /\ recvBuffer' = [recvBuffer EXCEPT ![s] = buf]
                  /\ pc' = [pc EXCEPT ![s] = Cont(buf)]
                  /\ UNCHANGED locals
  /\ UNCHANGED <<timezone, stream, closes, uniqueID, flight, coutMutex, sink, records,
                 accepted>>

(***************************************************************************)
(* Lines 81-123: one iteration of the framing loop, up to the point where  *)
(* it needs coutMutex (if it does).                                        *)
(***************************************************************************)
\* Lines 87-88.
SkipBlankAsFailure(s, line, rest) ==
  /\ trim(line) = <<>>
  /\ locals' = [locals EXCEPT ![s].line = line]
  /\ pc' = [pc EXCEPT ![s] = "failLock"]
  /\ UNCHANGED <<flight, accepted>>
SkipBlank(s, line, rest) ==
  /\ trim(line) = <<>>
  /\ pc' = [pc EXCEPT ![s] = Cont(rest)]
  /\ UNCHANGED <<flight, locals, accepted>>

\* Lines 90-92: the record does not parse.
RejectRecordResets(s, line, rest) ==
  /\ trim(line) # <<>>
  /\ ~parseOk(line)
  /\ locals' = [locals EXCEPT ![s].line = line]
  /\ pc' = [pc EXCEPT ![s] = "failLock"]
  /\ flight' = [flight EXCEPT ![s] = FlightData]
  /\ UNCHANGED accepted
RejectRecord(s, line, rest) ==
  /\ trim(line) # <<>>
  /\ ~parseOk(line)
  /\ locals' = [locals EXCEPT ![s].line = line]
  /\ pc' = [pc EXCEPT ![s] = "failLock"]
  /\ UNCHANGED <<flight, accepted>>

\* Lines 98-106 and 121-122: the first reading of the flight.
TakeFirstShared(s, line, rest) ==
  /\ trim(line) # <<>>
  /\ parseOk(line)
  /\ flight[s].firstData
  /\ \E parsed \in {parseTelemetryData(line)} :
     \E made \in mktime(parsed.timestamp, timezone) :
     LET currentTime == made.ret
         currentFuel == parsed.fuelRemaining
     IN /\ flight' = [t \in Sessions |->
                        UpdateLast(StoreStart(flight[s], currentTime, currentFuel),
                                   currentTime, currentFuel)]
        /\ accepted' = [accepted EXCEPT ![s] =
                          Append(@, Reading(currentTime, currentFuel))]
  /\ pc' = [pc EXCEPT ![s] = Cont(rest)]
  /\ UNCHANGED locals
TakeFirst(s, line, rest) ==
  /\ trim(line) # <<>>
  /\ parseOk(line)
  /\ flight[s].firstData
  /\ \E parsed \in {parseTelemetryData(line)} :
     \E made \in mktime(parsed.timestamp, timezone) :
     LET currentTime == made.ret
         currentFuel == parsed.fuelRemaining
     IN /\ flight' = [flight EXCEPT ![s] =
                        UpdateLast(StoreStart(@, currentTime, currentFuel),
                                   currentTime, currentFuel)]
        /\ accepted' = [accepted EXCEPT ![s] =
                          Append(@, Reading(currentTime, currentFuel))]
  /\ pc' = [pc EXCEPT ![s] = Cont(rest)]
  /\ UNCHANGED locals

\* Lines 98-111: a later reading, up to the lock_guard of line 113.  The
\* dataPoint the line of 113-117 prints holds the struct tm as mktime left
\* it.
TakeNext(s, line, rest) ==
  /\ trim(line) # <<>>
  /\ parseOk(line)
  /\ ~flight[s].firstData
  /\ \E parsed \in {parseTelemetryData(line)} :
     \E made \in mktime(parsed.timestamp, timezone) :
     LET dataPoint == [parsed EXCEPT !.timestamp = made.tm]
         currentTime == made.ret
         currentFuel == parsed.fuelRemaining
     IN locals' = [locals EXCEPT ![s] =
          [@ EXCEPT !.dataPoint = dataPoint,
                    !.currentTime = currentTime,
                    !.currentFuel = currentFuel,
                    !.consumptionRate =
                       ConsumptionRate(FuelConsumed(flight[s], currentFuel),
                                       TimeDiff(flight[s], currentTime))]]
  /\ pc' = [pc EXCEPT ![s] = "consLock"]
  /\ UNCHANGED <<flight, accepted>>

ProcessLine(s) ==
  /\ pc[s] = "lines"
  /\ \E lineEnd \in {Find(recvBuffer[s], NL)} :
     \E line \in {Before(recvBuffer[s], lineEnd)} :
     \E rest \in {After(recvBuffer[s], lineEnd)} :
        /\ recvBuffer' = [recvBuffer EXCEPT ![s] = rest]
        /\ records' = [records EXCEPT ![s] = Append(@, line)]
        /\ \/ SkipBlank(s, line, rest)
           \/ RejectRecord(s, line, rest)
           \/ TakeFirst(s, line, rest)
           \/ TakeNext(s, line, rest)
  /\ UNCHANGED <<timezone, stream, cursor, closes, bytesReceived, uniqueID, coutMutex,
                 sink>>

(***************************************************************************)
(* Lines 92-94: the "Failed to parse" line.                                *)
(***************************************************************************)
BeginParseFailFirst(s) ==
  /\ pc[s] = "failLock"
  /\ lock_guard(s)
  /\ sink' = <<Write(s, coutMutex', ParseFailureLine(locals[s].line))>> \o sink
  /\ pc' = [pc EXCEPT ![s] = "failWrite"]
  /\ UNCHANGED <<timezone, stream, cursor, closes, bytesReceived, recvBuffer, uniqueID,
                 flight, locals, records, accepted>>
BeginParseFail(s) ==
  /\ pc[s] = "failLock"
  /\ lock_guard(s)
  /\ sink' = Append(sink, Write(s, coutMutex', ParseFailureLine(locals[s].line)))
  /\ pc' = [pc EXCEPT ![s] = "failWrite"]
  /\ UNCHANGED <<timezone, stream, cursor, closes, bytesReceived, recvBuffer, uniqueID,
                 flight, locals, records, accepted>>

EndParseFail(s) ==
  /\ pc[s] = "failWrite"
  /\ sink' = Append(sink, Write(s, coutMutex, Endl))
  /\ unlock
  /\ locals' = [locals EXCEPT ![s] = NoLocals]
  /\ pc' = [pc EXCEPT ![s] = Cont(recvBuffer[s])]
  /\ UNCHANGED <<timezone, stream, cursor, closes, bytesReceived, recvBuffer, uniqueID,
                 flight, records, accepted>>

(***************************************************************************)
(* Lines 113-118: the consumption line.  The lock_guard's block ends at    *)
(* line 118; the update of the last reading (lines 121-122) comes after    *)
(* the mutex is free again and is a step of its own.                       *)
(***************************************************************************)
BeginConsumption(s) ==
  /\ pc[s] = "consLock"
  /\ lock_guard(s)
  /\ sink' = Append(sink,
        Write(s, coutMutex',
              ConsumptionLine(uniqueID[s], locals[s].dataPoint.timestamp,
                              locals[s].currentFuel, locals[s].consumptionRate)))
  /\ pc' = [pc EXCEPT ![s] = "consWrite"]
  /\ UNCHANGED <<timezone, stream, cursor, closes, bytesReceived, recvBuffer, uniqueID,
                 flight, locals, records, accepted>>

EndConsumption(s) ==
  /\ pc[s] = "consWrite"
  /\ sink' = Append(sink, Write(s, coutMutex, Endl))
  /\ unlock
  /\ pc' = [pc EXCEPT ![s] = "update"]
  /\ UNCHANGED <<timezone, stream, cursor, closes, bytesReceived, recvBuffer, uniqueID,
                 flight, locals, records, accepted>>

\* Lines 121-122 after a consumption line, then the framing loop's condition.
UpdateLastReading(s) ==
  /\ pc[s] = "update"
  /\ flight' = [flight EXCEPT ![s] =
                  UpdateLast(@, locals[s].currentTime, locals[s].currentFuel)]
  /\ accepted' = [accepted EXCEPT ![s] =
                    Append(@, Reading(locals[s].currentTime, locals[s].currentFuel))]
  /\ locals' = [locals EXCEPT ![s] = NoLocals]
  /\ pc' = [pc EXCEPT ![s] = Cont(recvBuffer[s])]
  /\ UNCHANGED <<timezone, stream, cursor, closes, bytesReceived, recvBuffer, uniqueID,
                 coutMutex, sink, records>>

(***************************************************************************)
(* Lines 131-138: the summary line; then, with the mutex free again,       *)
(* closesocket and the return.                                             *)
(***************************************************************************)
BeginSummary(s) ==
  /\ pc[s] = "sumLock"
  /\ lock_guard(s)
  /\ sink' = Append(sink,
        Write(s, coutMutex', SummaryLine(uniqueID[s], locals[s].averageConsumption)))
  /\ pc' = [pc EXCEPT ![s] = "sumWrite"]
  /\ UNCHANGED <<timezone, stream, cursor, closes, bytesReceived, recvBuffer, uniqueID,
                 flight, locals, records, accepted>>

EndSummary(s) ==
  /\ pc[s] = "sumWrite"
  /\ sink' = Append(sink, Write(s, coutMutex, Endl))
  /\ unlock
  /\ locals' = [locals EXCEPT ![s] = NoLocals]
  /\ pc' = [pc EXCEPT ![s] = "close"]
  /\ UNCHANGED <<timezone, stream, cursor, closes, bytesReceived, recvBuffer, uniqueID,
                 flight, records, accepted>>

\* Lines 57-58 and line 138: closesocket(clientSocket), and the return.
CloseSocket(s) ==
  /\ pc[s] \in {"idClose", "close"}
  /\ closesocket(s)
  /\ pc' = [pc EXCEPT ![s] = "done"]
  /\ UNCHANGED <<timezone, stream, cursor, bytesReceived, recvBuffer, uniqueID, flight,
                 locals, coutMutex, sink, records, accepted>>

Next ==
  \E s \in Sessions :
    \/ Accept(s)
    \/ RecvId(s)
    \/ BeginConnected(s)
    \/ EndConnected(s)
    \/ RecvData(s)
    \/ ProcessLine(s)
    \/ BeginParseFail(s)
    \/ EndParseFail(s)
    \/ BeginConsumption(s)
    \/ EndConsumption(s)
    \/ UpdateLastReading(s)
    \/ BeginSummary(s)
    \/ EndSummary(s)
    \/ CloseSocket(s)

\* One connection, any stream.
Spec == Init /\ [][Next]_vars

\* Two concurrent connections.
SpecConc == InitConc /\ [][Next]_vars

\* The steps of the thread of session s that need no lock, and those that
\* take coutMutex.
Unlocked(s) ==
  \/ RecvId(s)
  \/ EndConnected(s)
  \/ RecvData(s)
  \/ ProcessLine(s)
  \/ EndParseFail(s)
  \/ EndConsumption(s)
  \/ UpdateLastReading(s)
  \/ EndSummary(s)
  \/ CloseSocket(s)

Locking(s) ==
  \/ BeginConnected(s)
  \/ BeginParseFail(s)
  \/ BeginConsumption(s)
  \/ BeginSummary(s)

\* Two concurrent connections under fair scheduling: every thread keeps
\* running, every read on a connection whose peer sends a finite stream
\* returns, and a thread that asks for coutMutex again and again gets it.
SpecFair ==
  /\ InitConc
  /\ [][Next]_vars
  /\ \A s \in Sessions : WF_vars(Accept(s))
  /\ \A s \in Sessions : WF_vars(Unlocked(s))
  /\ \A s \in Sessions : SF_vars(Locking(s))

\* Two concurrent connections with lines of both kinds.
SpecOrder == InitOrder /\ [][Next]_vars

(***************************************************************************)
(* What the properties below read off a state.                             *)
(***************************************************************************)
\* The bytes recv has delivered to session s, and what follows their first
\* newline (the end of the identifier line).
Rcvd(s) == SubSeq(stream[s], 1, cursor[s])
AfterId(bytes) == After(bytes, Find(bytes, NL))

\* The thread of s has read its identifier (it is past line 67).
IdRead(s) ==
  \/ pc[s] \in {"connLock", "connWrite", "recv", "lines", "failLock",
                "failWrite", "consLock", "consWrite", "update", "sumLock",
                "sumWrite", "close"}
  \/ pc[s] = "done" /\ \E i \in 1..Len(sink) : sink[i].sid = s

\* The lines session s has completed (text and endl both written), in order.
TextsOf(s) ==
  SelectSeq(sink, LAMBDA w : w.sid = s /\ w.line.kind # "endl")
EndlsOf(s) ==
  SelectSeq(sink, LAMBDA w : w.sid = s /\ w.line.kind = "endl")
Lines(s) ==
  LET t == TextsOf(s)
      k == Min(Len(t), Len(EndlsOf(s)))
  IN [i \in 1..k |-> t[i].line]
LinesOfKind(s, kind) == SelectSeq(Lines(s), LAMBDA l : l.kind = kind)
ConsumptionLines(s) == LinesOfKind(s, "consumption")
ParseFailLines(s) == LinesOfKind(s, "parsefail")
SummaryLines(s) == LinesOfKind(s, "summary")

\* The thread of s has split a record off and not yet completed its line;
\* it has completed the consumption line and not yet stored the reading.
InRecord(s) == pc[s] \in {"failLock", "failWrite", "consLock", "consWrite"}
Updating(s) == pc[s] = "update"

AllButLast(seq) == SubSeq(seq, 1, Len(seq) - 1)

\* The records the thread of s has finished with, and those whose line, if
\* they cause one, is complete.
Handled(s) ==
  IF InRecord(s) \/ Updating(s) THEN AllButLast(records[s]) ELSE records[s]
Reported(s) == IF InRecord(s) THEN AllButLast(records[s]) ELSE records[s]

\* The readings of s whose handling has got as far as it writes: the
\* accepted ones, and the one whose consumption line is complete while
\* lines 121-122 have yet to store it.
Taken(s) ==
  IF Updating(s)
  THEN Append(accepted[s], Reading(locals[s].currentTime, locals[s].currentFuel))
  ELSE accepted[s]

\* r is the exact value of num / den, for den > 0.
IsQuotient(r, num, den) == r[2] > 0 /\ r[1] * den = r[2] * num

Last(seq) == seq[Len(seq)]

(***************************************************************************)
(* C1  Within one session no consumption line is emitted for the first     *)
(* accepted reading, and after N >= 1 accepted readings exactly N - 1      *)
(* consumption lines have been emitted, the i-th of them for the (i+1)-th  *)
(* accepted reading.  A reading counts from the moment its line is         *)
(* complete; lines 121-122 store it one step later.  The line shows the    *)
(* struct tm as mktime normalised it.                                      *)
(***************************************************************************)
C1_ConsumptionCount ==
  \A s \in Sessions :
    LET n == Len(Taken(s))
        c == ConsumptionLines(s)
    IN /\ n <= 1 => c = <<>>
       /\ n >= 1 => Len(c) = n - 1
       /\ Updating(s) => Len(accepted[s]) >= 1
       /\ \A i \in 1..Len(c) :
            /\ i + 1 <= n
            /\ TimeOf(c[i].tm, timezone) = Taken(s)[i + 1].time
            /\ c[i].tm = BrokenDown(LocalSeconds(c[i].tm))
            /\ c[i].fuel = Taken(s)[i + 1].fuel

C1_Witness ==
  /\ Len(accepted[1]) = 3
  /\ Len(ConsumptionLines(1)) = 2
  /\ pc[1] = "done"

(***************************************************************************)
(* C2  Once a session has accepted a reading, lastTime/lastFuel are those  *)
(* of the most recently accepted reading and startTime/startFuel those of  *)
(* the first accepted reading, whatever was received in between.           *)
(***************************************************************************)
C2_StartAndLast ==
  \A s \in Sessions :
    Len(accepted[s]) >= 1 =>
      /\ flight[s].lastTime = Last(accepted[s]).time
      /\ flight[s].lastFuel = Last(accepted[s]).fuel
      /\ flight[s].startTime = accepted[s][1].time
      /\ flight[s].startFuel = accepted[s][1].fuel

C2_Witness ==
  /\ Len(accepted[1]) = 2
  /\ accepted[1][1].time # accepted[1][2].time
  /\ accepted[1][1].fuel # accepted[1][2].fuel
  /\ Len(records[1]) = 3
  /\ ~parseOk(records[1][2])
  /\ pc[1] = "recv"

(***************************************************************************)
(* C3  For a non-first accepted reading that is strictly later than the    *)
(* accepted reading before it, the emitted rate is                         *)
(* (previous fuel - current fuel) / (current time - previous time),        *)
(* negative when the fuel went up.                                         *)
(***************************************************************************)
C3_RateFromPrevious ==
  \A s \in Sessions :
    \A i \in 2..Len(accepted[s]) :
      LET prev == accepted[s][i - 1]
          cur == accepted[s][i]
      IN cur.time > prev.time =>
           /\ Len(ConsumptionLines(s)) >= i - 1
           /\ IsQuotient(ConsumptionLines(s)[i - 1].rate,
                         prev.fuel - cur.fuel, cur.time - prev.time)
           /\ cur.fuel > prev.fuel => ConsumptionLines(s)[i - 1].rate[1] < 0

C3_Witness ==
  /\ Len(accepted[1]) = 3
  /\ accepted[1][1].time < accepted[1][2].time
  /\ accepted[1][2].time < accepted[1][3].time
  /\ accepted[1][1].fuel > accepted[1][2].fuel
  /\ accepted[1][2].fuel < accepted[1][3].fuel
  /\ Len(ConsumptionLines(1)) = 2
  /\ ConsumptionLines(1)[2].rate = <<-2, 1>>

(***************************************************************************)
(* C4  For a non-first accepted reading that is not later than the         *)
(* accepted reading before it, a consumption line is still emitted, its    *)
(* rate is exactly 0, and lastTime/lastFuel are updated to the reading.    *)
(***************************************************************************)
C4_ZeroRateWhenNotLater ==
  \A s \in Sessions :
    \A i \in 2..Len(accepted[s]) :
      LET prev == accepted[s][i - 1]
          cur == accepted[s][i]
      IN cur.time <= prev.time =>
           /\ Len(ConsumptionLines(s)) >= i - 1
           /\ ConsumptionLines(s)[i - 1].rate = Zero
           /\ ConsumptionLines(s)[i - 1].fuel = cur.fuel
           /\ i = Len(accepted[s]) =>
                /\ flight[s].lastTime = cur.time
                /\ flight[s].lastFuel = cur.fuel

C4_Witness ==
  /\ Len(accepted[1]) = 3
  /\ accepted[1][2].time = accepted[1][1].time
  /\ accepted[1][2].fuel # accepted[1][1].fuel
  /\ accepted[1][3].time < accepted[1][2].time
  /\ accepted[1][3].fuel # accepted[1][2].fuel
  /\ Len(ConsumptionLines(1)) = 2

(***************************************************************************)
(* C5  The average of the summary is (startFuel - lastFuel) /              *)
(* (lastTime - startTime) of the first and last accepted readings when the *)
(* last is later than the first, and 0 otherwise, also when no reading or  *)
(* one reading was accepted.                                               *)
(***************************************************************************)
ExpectedAverage(r, readings) ==
  IF readings # <<>> /\ Last(readings).time > readings[1].time
  THEN IsQuotient(r, readings[1].fuel - Last(readings).fuel,
                  Last(readings).time - readings[1].time)
  ELSE r = Zero

C5_Average ==
  \A s \in Sessions :
    /\ pc[s] \in {"sumLock", "sumWrite"} =>
         ExpectedAverage(locals[s].averageConsumption, accepted[s])
    /\ \A i \in 1..Len(SummaryLines(s)) :
         ExpectedAverage(SummaryLines(s)[i].rate, accepted[s])

C5_Witness ==
  /\ pc[1] = "done"
  /\ Len(accepted[1]) = 3
  /\ Len(SummaryLines(1)) = 1
  /\ SummaryLines(1)[1].rate = <<3, 5>>

(***************************************************************************)
(* C6  A malformed, non-blank record yields exactly one "Failed to parse"  *)
(* line and leaves the tracker alone: the accepted readings, the rates of  *)
(* the consumption lines and the average are those of the well-formed      *)
(* records only, and the session goes on until a read returns nothing.     *)
(***************************************************************************)
IsBlank(r) == trim(r) = <<>>
Malformed(recs) == SelectSeq(recs, LAMBDA r : ~IsBlank(r) /\ ~parseOk(r))
WellFormed(recs) == SelectSeq(recs, LAMBDA r : ~IsBlank(r) /\ parseOk(r))
ReadingOf(r) ==
  LET d == parseTelemetryData(r)
  IN [time |-> TimeOf(d.timestamp, timezone), fuel |-> d.fuelRemaining]

ExpectedRate(r, prev, cur) ==
  IF cur.time > prev.time
  THEN IsQuotient(r, prev.fuel - cur.fuel, cur.time - prev.time)
  ELSE r = Zero

C6_MalformedIsolated ==
  \A s \in Sessions :
    LET good == WellFormed(Handled(s))
        shown == WellFormed(Reported(s))
        bad == Malformed(Handled(s))
        fails == ParseFailLines(s)
        cons == ConsumptionLines(s)
    IN /\ [i \in 1..Len(fails) |-> fails[i].text] = bad
       /\ accepted[s] = [i \in 1..Len(good) |-> ReadingOf(good[i])]
       /\ flight[s].firstData = (good = <<>>)
       /\ good # <<>> =>
            /\ flight[s].startTime = ReadingOf(good[1]).time
            /\ flight[s].startFuel = ReadingOf(good[1]).fuel
            /\ flight[s].lastTime = ReadingOf(Last(good)).time
            /\ flight[s].lastFuel = ReadingOf(Last(good)).fuel
       /\ Len(cons) = (IF shown = <<>> THEN 0 ELSE Len(shown) - 1)
       /\ \A i \in 1..Len(cons) :
            ExpectedRate(cons[i].rate, ReadingOf(shown[i]), ReadingOf(shown[i + 1]))
       /\ \A i \in 1..Len(SummaryLines(s)) :
            ExpectedAverage(SummaryLines(s)[i].rate,
                            [j \in 1..Len(good) |-> ReadingOf(good[j])])
       /\ pc[s] \in {"sumLock", "sumWrite", "close", "done"} => bytesReceived[s] <= 0

C6_Witness ==
  /\ pc[1] = "done"
  /\ Len(records[1]) = 3
  /\ parseOk(records[1][1])
  /\ ~IsBlank(records[1][2]) /\ ~parseOk(records[1][2])
  /\ parseOk(records[1][3])
  /\ Len(ParseFailLines(1)) = 1
  /\ Len(ConsumptionLines(1)) = 1
  /\ ConsumptionLines(1)[1].rate # Zero
  /\ Len(SummaryLines(1)) = 1

(***************************************************************************)
(* C7  Every write to the console is made by the holder of coutMutex, at   *)
(* most one thread is inside a write, and in the console the text of a     *)
(* line is followed at once by its own endl: no line is cut by another     *)
(* session's output.                                                       *)
(***************************************************************************)
Writing(s) == pc[s] \in {"connWrite", "failWrite", "consWrite", "sumWrite"}
AwaitingLock(s) == pc[s] \in {"connLock", "failLock", "consLock", "sumLock"}

C7_LinesAtomic ==
  /\ \A i \in 1..Len(sink) : sink[i].holder = sink[i].sid
  /\ \A s \in Sessions : Writing(s) => coutMutex = s
  /\ \A s, t \in Sessions : Writing(s) /\ Writing(t) => s = t
  /\ \A i \in 1..Len(sink) :
       IF sink[i].line.kind = "endl"
       THEN /\ i > 1
            /\ sink[i - 1].sid = sink[i].sid
            /\ sink[i - 1].line.kind # "endl"
       ELSE i < Len(sink) =>
              /\ sink[i + 1].sid = sink[i].sid
              /\ sink[i + 1].line.kind = "endl"

C7_Witness ==
  /\ Writing(1)
  /\ AwaitingLock(2)
  /\ \E i \in 1..Len(sink) : sink[i].sid = 2
  /\ \E i, j \in 1..Len(sink) :
       /\ i < j
       /\ j < Len(sink)
       /\ sink[i].sid = 1
       /\ sink[j].sid = 2

(***************************************************************************)
(* C8  The records split off by the framing loop, each followed by a       *)
(* newline, then the bytes left in recvBuffer, are the bytes received      *)
(* after the identifier line, for streams that may hold zero bytes.        *)
(***************************************************************************)
Framed(recs) == Flatten([i \in 1..Len(recs) |-> recs[i] \o <<NL>>])

C8_FramingRoundTrip ==
  \A s \in Sessions :
    IdRead(s) => Framed(records[s]) \o recvBuffer[s] = AfterId(Rcvd(s))

(***************************************************************************)
(* C9  When the summary is emitted, every complete record received after   *)
(* the identifier line has been taken by the framing loop and, unless      *)
(* blank, parsed; stated for streams without zero bytes.                   *)
(***************************************************************************)
RECURSIVE CompleteRecords(_)
CompleteRecords(bytes) ==
  IF HasNL(bytes)
  THEN <<Before(bytes, Find(bytes, NL))>>
         \o CompleteRecords(After(bytes, Find(bytes, NL)))
  ELSE <<>>

NonBlank(recs) == SelectSeq(recs, LAMBDA r : ~IsBlank(r))

C9_AllRecordsProcessed ==
  \A s \in Sessions :
    (/\ IdRead(s)
     /\ pc[s] \in {"sumLock", "sumWrite", "close", "done"}
     /\ Find(Rcvd(s), NUL) = 0)
    => NonBlank(records[s]) = NonBlank(CompleteRecords(AfterId(Rcvd(s))))

(***************************************************************************)
(* C10  While no newline has been received the session writes nothing to   *)
(* the console, and when its stream ends in that state the thread returns  *)
(* with the socket closed, without a summary.                              *)
(***************************************************************************)
C10_SilentWithoutId ==
  \A s \in Sessions :
    ~HasNL(Rcvd(s)) =>
      /\ \A i \in 1..Len(sink) : sink[i].sid # s
      /\ pc[s] \in {"absent", "pending", "awaitId", "idClose", "done"}
      /\ pc[s] = "done" => bytesReceived[s] <= 0 /\ closes[s] = 1
      /\ pc[s] # "done" => closes[s] = 0

C10_Witness ==
  /\ pc[1] = "done"
  /\ cursor[1] > 0
  /\ ~HasNL(Rcvd(1))
  /\ bytesReceived[1] <= 0
  /\ closes[1] = 1
  /\ sink = <<>>

(***************************************************************************)
(* C11  A session that has read its identifier writes the "Connected       *)
(* client" line first and once; it writes the summary once, as its last    *)
(* line, only after a read returned <= 0 and after all its consumption and *)
(* parse-failure lines; a finished session has exactly one summary.        *)
(***************************************************************************)
C11_ConnectedFirstSummaryLast ==
  \A s \in Sessions :
    LET t == TextsOf(s)
    IN /\ t # <<>> =>
            /\ t[1].line.kind = "connected"
            /\ t[1].line.id = uniqueID[s]
       /\ \A i \in 2..Len(t) : t[i].line.kind # "connected"
       /\ \A i \in 1..Len(t) :
            t[i].line.kind = "summary" =>
              /\ i = Len(t)
              /\ bytesReceived[s] <= 0
              /\ pc[s] \in {"sumWrite", "close", "done"}
       /\ (IdRead(s) /\ pc[s] # "connLock") => t # <<>>
       /\ (IdRead(s) /\ pc[s] = "done") =>
            /\ Len(Lines(s)) = Len(t)
            /\ Len(SummaryLines(s)) = 1
            /\ Last(Lines(s)).kind = "summary"

C11_Witness ==
  /\ pc[1] = "done"
  /\ Len(Lines(1)) = 4
  /\ Lines(1)[1].kind = "connected"
  /\ Lines(1)[2].kind = "parsefail"
  /\ Lines(1)[3].kind = "consumption"
  /\ Lines(1)[4].kind = "summary"
  /\ bytesReceived[1] = 0

(***************************************************************************)
(* C12  Bytes left in recvBuffer without a newline when the stream ends    *)
(* are discarded: the records taken are newline-terminated records of the  *)
(* stream only, the unterminated tail is still in recvBuffer, and lines    *)
(* and tracker come from the records taken, even if the tail is a valid    *)
(* reading.  Stated for streams without zero bytes.                        *)
(***************************************************************************)
RECURSIVE UnterminatedTail(_)
UnterminatedTail(bytes) ==
  IF HasNL(bytes) THEN UnterminatedTail(After(bytes, Find(bytes, NL))) ELSE bytes

Ended(s) == IdRead(s) /\ pc[s] \in {"sumLock", "sumWrite", "close", "done"}

IsSuffix(tail, str) ==
  /\ Len(tail) <= Len(str)
  /\ SubSeq(str, Len(str) - Len(tail) + 1, Len(str)) = tail

C12_TailDiscarded ==
  \A s \in Sessions :
    (Ended(s) /\ Find(Rcvd(s), NUL) = 0) =>
      LET rest == AfterId(Rcvd(s))
          complete == CompleteRecords(rest)
          good == WellFormed(records[s])
      IN /\ Len(records[s]) <= Len(complete)
         /\ records[s] = SubSeq(complete, 1, Len(records[s]))
         /\ IsSuffix(UnterminatedTail(rest), recvBuffer[s])
         /\ accepted[s] = [i \in 1..Len(good) |-> ReadingOf(good[i])]
         /\ Len(ParseFailLines(s)) = Len(Malformed(records[s]))
         /\ Len(ConsumptionLines(s)) = (IF good = <<>> THEN 0 ELSE Len(good) - 1)
         /\ flight[s].firstData = (good = <<>>)
         /\ good # <<>> =>
              /\ flight[s].lastTime = ReadingOf(Last(good)).time
              /\ flight[s].lastFuel = ReadingOf(Last(good)).fuel

C12_Witness ==
  /\ pc[1] = "done"
  /\ bytesReceived[1] = 0
  /\ Find(Rcvd(1), NUL) = 0
  /\ recvBuffer[1] = <<49, COMMA, 49>>
  /\ parseOk(recvBuffer[1])
  /\ accepted[1] = <<>>
  /\ flight[1] = FlightData
  /\ Len(Lines(1)) = 2
  /\ Lines(1)[2].kind = "summary"

(***************************************************************************)
(* C13  A step of the framing loop that splits off a record that is empty  *)
(* or whitespace-only after trimming writes nothing, leaves the tracker    *)
(* (firstData, start and last fields) and the accepted readings unchanged,  *)
(* and                                                                     *)
(* goes on with the next record or the next read.                          *)
(***************************************************************************)
BlankSplitOff(s) ==
  /\ Len(records'[s]) = Len(records[s]) + 1
  /\ IsBlank(records'[s][Len(records'[s])])

BlankLeavesNoTrace(s) ==
  /\ flight'[s] = flight[s]
  /\ accepted'[s] = accepted[s]
  /\ locals'[s] = locals[s]
  /\ sink' = sink
  /\ pc'[s] \in {"lines", "recv"}

C13_BlankSkipped ==
  [][\A s \in Sessions : BlankSplitOff(s) => BlankLeavesNoTrace(s)]_vars

C13_Witness ==
  /\ pc[1] = "done"
  /\ Len(records[1]) = 3
  /\ parseOk(records[1][1])
  /\ records[1][2] = <<SP>>
  /\ parseOk(records[1][3])
  /\ Len(accepted[1]) = 2
  /\ Len(ParseFailLines(1)) = 0
  /\ Len(ConsumptionLines(1)) = 1
  /\ Len(Lines(1)) = 3

(***************************************************************************)
(* C14  A read that fails (negative result) ends only that connection:     *)
(* the failure is logged to the console, the socket is closed, and no      *)
(* other session is touched.                                               *)
(***************************************************************************)
C14_ReadFailureLogged ==
  \A s \in Sessions :
    (pc[s] = "done" /\ bytesReceived[s] < 0) =>
      /\ closes[s] = 1
      /\ \E i \in 1..Len(sink) : sink[i].sid = s
      /\ \A t \in Sessions \ {s} : pc[t] = "absent" /\ closes[t] = 0

(***************************************************************************)
(* C15  A thread that stands at a recv call does not hold coutMutex: the   *)
(* mutex is held only by a thread between the text and the endl of a line, *)
(* so a thread waiting for it is held up only by a thread that is writing, *)
(* never by one that waits for data.                                       *)
(***************************************************************************)
AtRecv(s) == pc[s] \in {"awaitId", "recv"}

C15_NoLockWhileReading ==
  /\ \A s \in Sessions : AtRecv(s) => coutMutex # s
  /\ coutMutex # 0 => Writing(coutMutex)
  /\ \A t \in Sessions :
       (AwaitingLock(t) /\ \A u \in Sessions : ~Writing(u)) => coutMutex = 0

C15_Witness ==
  /\ pc[1] = "awaitId"
  /\ cursor[1] = 0
  /\ stream[1] # <<>>
  /\ pc[2] = "done"
  /\ Len(Lines(2)) >= 3
  /\ Len(SummaryLines(2)) = 1

(***************************************************************************)
(* C16  Session state is isolated: a step changes the FlightData, receive  *)
(* buffer, identifier and other locals of at most one session, and what a  *)
(* session holds and writes is determined by its own stream: identifier    *)
(* and framing from its own bytes, readings from its own records, and its  *)
(* own identifier on its lines.                                            *)
(***************************************************************************)
LocalState(t) ==
  <<pc[t], cursor[t], closes[t], bytesReceived[t], recvBuffer[t], uniqueID[t],
    flight[t], locals[t], records[t], accepted[t]>>

OneSessionSteps == \E s \in Sessions : \A t \in Sessions \ {s} : LocalState(t)' = LocalState(t)

OwnStreamOnly(s) ==
  LET good == WellFormed(Handled(s))
  IN /\ IdRead(s) =>
          /\ uniqueID[s] = Before(Rcvd(s), Find(Rcvd(s), NL))
          /\ Framed(records[s]) \o recvBuffer[s] = AfterId(Rcvd(s))
     /\ accepted[s] = [i \in 1..Len(good) |-> ReadingOf(good[i])]
     /\ \A i \in 1..Len(Lines(s)) :
          Lines(s)[i].kind \in {"connected", "consumption", "summary"}
            => Lines(s)[i].id = uniqueID[s]
     /\ \A i \in 1..Len(SummaryLines(s)) :
          ExpectedAverage(SummaryLines(s)[i].rate, accepted[s])

C16_Isolation ==
  /\ [](\A s \in Sessions : OwnStreamOnly(s))
  /\ [][OneSessionSteps]_vars

C16_Witness ==
  /\ pc[1] = "done"
  /\ pc[2] = "done"
  /\ uniqueID[1] # uniqueID[2]
  /\ Len(accepted[1]) = 2
  /\ accepted[2] = <<>>
  /\ flight[1] # flight[2]
  /\ Len(ParseFailLines(2)) = 1
  /\ \E i \in 1..(Len(sink) - 2) : sink[i].sid = 1 /\ sink[i + 2].sid = 2

(***************************************************************************)
(* C17  The session "N12AB" that sends (t=0, fuel=100), (t=10, fuel=95),   *)
(* (t=20, fuel=88) and disconnects writes exactly: the connected line, a   *)
(* consumption line with rate 0.5, one with rate 0.7, and the summary with *)
(* average 0.6.                                                            *)
(***************************************************************************)
N12AB == <<78, 49, 50, 65, 66>>

ScenarioOutput ==
  <<ConnectedLine(N12AB),
    ConsumptionLine(N12AB, BrokenDown(10), 95, <<1, 2>>),
    ConsumptionLine(N12AB, BrokenDown(20), 88, <<7, 10>>),
    SummaryLine(N12AB, <<3, 5>>)>>

ScenarioDone ==
  /\ stream[1] = Scenario
  /\ pc[1] = "done"
  /\ cursor[1] = Len(Scenario)
  /\ bytesReceived[1] = 0

C17_Scenario == ScenarioDone => Lines(1) = ScenarioOutput

(***************************************************************************)
(* C18  The consumption and parse-failure lines of a session appear in the *)
(* console in the order in which the records that caused them appear in    *)
(* the session's byte stream, whatever the chunking and the interleaving   *)
(* with another session.                                                   *)
(***************************************************************************)
FailEvent(r) == <<"parsefail", r, 0, 0>>
ConsEvent(reading) == <<"consumption", <<>>, reading.time, reading.fuel>>

\* The events a sequence of records must cause, in order; seen tells whether
\* a well-formed record came before.
RECURSIVE EventsFrom(_, _)
EventsFrom(recs, seen) ==
  IF recs = <<>> THEN <<>>
  ELSE LET r == Head(recs) IN
    IF IsBlank(r) THEN EventsFrom(Tail(recs), seen)
    ELSE IF ~parseOk(r) THEN <<FailEvent(r)>> \o EventsFrom(Tail(recs), seen)
    ELSE IF ~seen THEN EventsFrom(Tail(recs), TRUE)
    ELSE <<ConsEvent(ReadingOf(r))>> \o EventsFrom(Tail(recs), TRUE)

\* The events the completed lines of session s show, in console order.
EventOf(l) ==
  IF l.kind = "parsefail" THEN FailEvent(l.text)
  ELSE ConsEvent([time |-> TimeOf(l.tm, timezone), fuel |-> l.fuel])
Events(s) ==
  LET ls == SelectSeq(Lines(s), LAMBDA l : l.kind \in {"parsefail", "consumption"})
  IN [i \in 1..Len(ls) |-> EventOf(ls[i])]

IsPrefix(p, q) == Len(p) <= Len(q) /\ p = SubSeq(q, 1, Len(p))

C18_LinesInRecordOrder ==
  \A s \in Sessions :
    LET inStream == CompleteRecords(AfterId(stream[s]))
        received == CompleteRecords(AfterId(Rcvd(s)))
    IN /\ IsPrefix(Reported(s), received)
       /\ Events(s) = EventsFrom(Reported(s), FALSE)
       /\ IsPrefix(Events(s), EventsFrom(inStream, FALSE))

C18_Witness ==
  /\ pc[1] = "done"
  /\ pc[2] = "done"
  /\ Len(Events(1)) = 2
  /\ Len(Events(2)) = 2
  /\ Events(1)[1][1] # Events(2)[1][1]
  /\ Events(1)[1][1] # Events(1)[2][1]
  /\ \E i, j, k \in 1..Len(sink) :
       /\ i < j /\ j < k
       /\ sink[i].sid = sink[k].sid
       /\ sink[i].sid # sink[j].sid
       /\ sink[i].line.kind \in {"parsefail", "consumption"}
       /\ sink[j].line.kind \in {"parsefail", "consumption"}
       /\ sink[k].line.kind \in {"parsefail", "consumption"}

(***************************************************************************)
(* C19  A thread is past its loops only after a read returned <= 0; under  *)
(* fair scheduling a started thread whose stream ends terminates; a        *)
(* terminated thread has closed its socket exactly once, and a thread that *)
(* still reads has not closed it.                                          *)
(***************************************************************************)
LeftLoops(s) == pc[s] \in {"idClose", "sumLock", "sumWrite", "close", "done"}

SocketDiscipline(s) ==
  /\ LeftLoops(s) => bytesReceived[s] <= 0
  /\ closes[s] <= 1
  /\ pc[s] = "done" <=> closes[s] = 1
  /\ AtRecv(s) => closes[s] = 0

C19_TerminatesAndCloses ==
  /\ [](\A s \in Sessions : SocketDiscipline(s))
  /\ \A s \in Sessions : (pc[s] = "awaitId") ~> (pc[s] = "done")

C19_Witness ==
  /\ pc[1] = "done"
  /\ pc[2] = "done"
  /\ closes[1] = 1
  /\ closes[2] = 1
  /\ Len(SummaryLines(1)) = 1
  /\ Len(ConsumptionLines(1)) = 1
  /\ cursor[2] > 0
  /\ \A i \in 1..Len(sink) : sink[i].sid = 1

(***************************************************************************)
(* C20  Chunk-split independence: two runs of the handler on the same     *)
(* byte stream, each read to its end in its own chunks, extract the same   *)
(* identifier and emit the same lines.  The two sessions are the two runs. *)
(***************************************************************************)
RanToEnd(s) ==
  /\ pc[s] = "done"
  /\ cursor[s] = Len(stream[s])
  /\ bytesReceived[s] = 0

SameStreamBothEnded ==
  /\ stream[1] = stream[2]
  /\ stream[1] # <<>>
  /\ RanToEnd(1)
  /\ RanToEnd(2)

C20_ChunkSplitIndependence ==
  SameStreamBothEnded => uniqueID[1] = uniqueID[2] /\ Lines(1) = Lines(2)

=============================================================================
